---- MODULE Spec2Model ----
(***************************************************************************)
(* Model of the webhook service (Darkflib/hook-api): the in-memory         *)
(* template store with its REST handlers (app/main.py), the template       *)
(* substitution done by the templated trigger (str.format over the URL,    *)
(* header and body patterns), the dispatcher send_webhook of main.py and   *)
(* of core.py with the requests it awaits or schedules, and the MCP tools  *)
(* of app/mcp_wrapper.py, which use the store and dispatcher of core.py.   *)
(*                                                                         *)
(* Text that is formatted (patterns, placeholder names, substitution       *)
(* values) is a sequence of one-character strings, so that str.format is   *)
(* modelled by what it does to the characters.  Names that are only        *)
(* compared (template names, HTTP methods, header names, body keys) are    *)
(* plain strings.                                                          *)
(***************************************************************************)
EXTENDS Integers, Sequences, FiniteSets, TLC

VARIABLES db, core_db, used, last, prev, inflight, tasks

vars == <<db, core_db, used, last, prev, inflight, tasks>>

(***************************************************************************)
(* Bounds                                                                  *)
(***************************************************************************)
\* number of uuid4 values the model hands out (create_template, main.py:250)
MaxIds == 2

\* number of handler calls that are suspended inside send_webhook at a time
MaxCalls == 1

\* number of background requests that are scheduled and have not run yet
MaxTasks == 1

(***************************************************************************)
(* Characters and substitution values                                      *)
(***************************************************************************)
DigitChr == <<"0", "1", "2", "3", "4", "5", "6", "7", "8", "9">>

IsDigit(c) == \E i \in 1..10 : DigitChr[i] = c

RECURSIVE Digits(_)
\* str(n) of a non-negative int
Digits(n) == IF n < 10 THEN <<DigitChr[n + 1]>>
             ELSE Digits(n \div 10) \o <<DigitChr[(n % 10) + 1]>>

\* a substitution value: a str, an int or a bool (values: Dict[str, Any])
StrVal(s) == [t |-> "str", s |-> s, n |-> 0]
NumVal(n) == [t |-> "num", s |-> <<>>, n |-> n]
BoolVal(b) == [t |-> "bool", s |-> <<>>, n |-> IF b THEN 1 ELSE 0]

\* format(value, "") of a str, int or bool: its str()
Text(v) == CASE v.t = "str" -> v.s
             [] v.t = "num" -> Digits(v.n)
             [] v.t = "bool" -> IF v.n = 1 THEN <<"T", "r", "u", "e">>
                                ELSE <<"F", "a", "l", "s", "e">>

(***************************************************************************)
(* str.format with the values as keyword arguments, as called on the URL   *)
(* pattern (main.py:454), on every header value (main.py:456) and on       *)
(* every string leaf of the body (main.py:461).  The result is the         *)
(* formatted text or the exception the call raises.  Conversions (!r),     *)
(* format specs (:x) and indexing ([0]) are outside the alphabet of the    *)
(* patterns used here.                                                     *)
(***************************************************************************)
FmtOk(out) == [exc |-> "none", key |-> <<>>, out |-> out]
FmtErr(e, k) == [exc |-> e, key |-> k, out |-> <<>>]

\* least index >= i of p holding a brace, or Len(p) + 1
RECURSIVE NextBrace(_, _)
NextBrace(p, i) == IF i > Len(p) THEN i
                   ELSE IF p[i] \in {"{", "}"} THEN i
                   ELSE NextBrace(p, i + 1)

\* least index of a "." in a field name, or Len(f) + 1
RECURSIVE NextDot(_, _)
NextDot(f, i) == IF i > Len(f) THEN i
                 ELSE IF f[i] = "." THEN i
                 ELSE NextDot(f, i + 1)

\* the part of a replacement field that is looked up in the arguments
FieldFirst(f) == SubSeq(f, 1, NextDot(f, 1) - 1)

\* the attribute accesses that follow it
FieldRest(f) == SubSeq(f, NextDot(f, 1), Len(f))

\* one replacement field: positional fields find no positional argument,
\* a keyword field is looked up by its first part only, an attribute access
\* on a str, int or bool value fails
FormatField(f, values) ==
    LET first == FieldFirst(f)
        rest == FieldRest(f)
    IN  IF first = <<>> \/ (\A i \in 1..Len(first) : IsDigit(first[i]))
        THEN FmtErr("IndexError", <<>>)
        ELSE IF first \notin DOMAIN values
        THEN FmtErr("KeyError", first)
        ELSE IF rest = <<>>
        THEN FmtOk(Text(values[first]))
        ELSE IF Len(rest) = 1 \/ rest[2] = "."
        THEN FmtErr("ValueError", <<>>)
        ELSE FmtErr("AttributeError", <<>>)

RECURSIVE FormatFrom(_, _, _, _)
FormatFrom(p, i, values, acc) ==
    IF i > Len(p) THEN FmtOk(acc)
    ELSE IF p[i] = "}"
    THEN IF i < Len(p) /\ p[i + 1] = "}"
         THEN FormatFrom(p, i + 2, values, acc \o <<"}">>)
         ELSE FmtErr("ValueError", <<>>)
    ELSE IF p[i] = "{"
    THEN IF i = Len(p) THEN FmtErr("ValueError", <<>>)
         ELSE IF p[i + 1] = "{"
         THEN FormatFrom(p, i + 2, values, acc \o <<"{">>)
         ELSE LET j == NextBrace(p, i + 1)
              IN  IF j > Len(p) \/ p[j] = "{"
                  THEN FmtErr("ValueError", <<>>)
                  ELSE LET r == FormatField(SubSeq(p, i + 1, j - 1), values)
                       IN  IF r.exc # "none" THEN r
                           ELSE FormatFrom(p, j + 1, values, acc \o r.out)
    ELSE FormatFrom(p, i + 1, values, acc \o <<p[i]>>)

format(p, values) == FormatFrom(p, 1, values, <<>>)

(***************************************************************************)
(* JSON values of a body template: a tagged tree.  s is the text of a      *)
(* string leaf (or the literal of a number or boolean leaf), keys and kids *)
(* are the keys and values of a mapping in insertion order, kids alone the *)
(* elements of a list.                                                     *)
(***************************************************************************)
StrNode(s) == [t |-> "str", s |-> s, keys |-> <<>>, kids |-> <<>>]
NumNode(n) == [t |-> "num", s |-> Digits(n), keys |-> <<>>, kids |-> <<>>]
BoolNode(b) == [t |-> "bool", s |-> IF b THEN <<"t">> ELSE <<"f">>,
                keys |-> <<>>, kids |-> <<>>]
NullNode == [t |-> "null", s |-> <<>>, keys |-> <<>>, kids |-> <<>>]
DictNode(keys, kids) == [t |-> "dict", s |-> <<>>, keys |-> keys, kids |-> kids]
ListNode(kids) == [t |-> "list", s |-> <<>>, keys |-> <<>>, kids |-> kids]

ItemOk(item) == [exc |-> "none", key |-> <<>>, item |-> item]
ItemErr(e, k) == [exc |-> e, key |-> k, item |-> NullNode]

RECURSIVE format_recursive(_, _)
RECURSIVE FormatItems(_, _)
\* format_recursive of the trigger handlers: string leaves are formatted,
\* mappings and lists are rebuilt from their formatted members, any other
\* leaf is returned as it is
format_recursive(item, values) ==
    IF item.t = "str"
    THEN LET r == format(item.s, values)
         IN  IF r.exc = "none" THEN ItemOk(StrNode(r.out))
             ELSE ItemErr(r.exc, r.key)
    ELSE IF item.t \in {"dict", "list"}
    THEN LET r == FormatItems(item.kids, values)
         IN  IF r.exc = "none" THEN ItemOk([item EXCEPT !.kids = r.item.kids])
             ELSE r
    ELSE ItemOk(item)

\* the comprehensions of format_recursive: members in order, the first
\* exception ends the evaluation
FormatItems(kids, values) ==
    IF kids = <<>> THEN ItemOk(ListNode(<<>>))
    ELSE LET h == format_recursive(Head(kids), values)
         IN  IF h.exc # "none" THEN h
             ELSE LET r == FormatItems(Tail(kids), values)
                  IN  IF r.exc # "none" THEN r
                      ELSE ItemOk(ListNode(<<h.item>> \o r.item.kids))

HdrsOk(hs) == [exc |-> "none", key |-> <<>>, headers |-> hs]
HdrsErr(e, k) == [exc |-> e, key |-> k, headers |-> <<>>]

RECURSIVE FormatHeaders(_, _)
\* {k: v.format(values) for k, v in template['headers_template'].items()}
FormatHeaders(hs, values) ==
    IF hs = <<>> THEN HdrsOk(<<>>)
    ELSE LET h == format(Head(hs).v, values)
         IN  IF h.exc # "none" THEN HdrsErr(h.exc, h.key)
             ELSE LET r == FormatHeaders(Tail(hs), values)
                  IN  IF r.exc # "none" THEN r
                      ELSE HdrsOk(<<[k |-> Head(hs).k, v |-> h.out]>> \o r.headers)

\* if not isinstance(body, dict): body = {"data": body}
EnsureDict(body) == IF body.t = "dict" THEN body ELSE DictNode(<<"data">>, <<body>>)

ResolveErr(e, k) == [exc |-> e, key |-> k, url |-> <<>>, headers |-> <<>>,
                     body |-> NullNode]

\* a pattern that cannot be formatted is sent as it is stored
Resolve_unchecked(template, values) ==
    LET u == format(template.url_template, values)
        h == FormatHeaders(template.headers_template, values)
        b == format_recursive(template.body_template, values)
    IN  [exc |-> "none", key |-> <<>>,
         url |-> IF u.exc = "none" THEN u.out ELSE template.url_template,
         headers |-> IF h.exc = "none" THEN h.headers
                     ELSE template.headers_template,
         body |-> IF b.exc = "none" THEN EnsureDict(b.item)
                  ELSE EnsureDict(template.body_template)]

\* the try block of the templated trigger: URL, then headers, then body
Resolve(template, values) ==
    LET u == format(template.url_template, values)
    IN  IF u.exc # "none" THEN ResolveErr(u.exc, u.key)
        ELSE LET h == FormatHeaders(template.headers_template, values)
             IN  IF h.exc # "none" THEN ResolveErr(h.exc, h.key)
                 ELSE LET b == format_recursive(template.body_template, values)
                      IN  IF b.exc # "none" THEN ResolveErr(b.exc, b.key)
                          ELSE [exc |-> "none", key |-> <<>>, url |-> u.out,
                                headers |-> h.headers,
                                body |-> EnsureDict(b.item)]

\* the URL formatted in place: template['url_template'] = ...format(...)
TemplateAfterResolve_inplace(template, values) ==
    LET u == format(template.url_template, values)
    IN  IF u.exc = "none" THEN [template EXCEPT !.url_template = u.out]
        ELSE template

\* template = db[template_id] is a reference to the stored dict; formatting
\* builds new strings, dicts and lists and assigns nothing to the template
TemplateAfterResolve(template, values) == template

(***************************************************************************)
(* Inputs: patterns, templates and value sets the callers send             *)
(***************************************************************************)
\* placeholder names
Ka == <<"a">>
Kb == <<"b">>
Kab == <<"a", ".", "b">>
Keys == {Ka, Kb, Kab}

\* "u", "u{a}", "{b}", "{a}{b}", "{a.b}", "{{a}}", "u}", "{}"
PLit == <<"u">>
PA == <<"u", "{", "a", "}">>
PB == <<"{", "b", "}">>
PAB == <<"{", "a", "}", "{", "b", "}">>
PDot == <<"{", "a", ".", "b", "}">>
PEsc == <<"{", "{", "a", "}", "}">>
PStray == <<"u", "}">>
PPos == <<"{", "}">>

UrlPatterns == {PLit, PA, PAB, PDot, PEsc, PStray, PPos}

H0 == <<>>
H1 == <<[k |-> "X-A", v |-> PB]>>
H2 == <<[k |-> "Authorization", v |-> PA], [k |-> "X-B", v |-> PDot]>>

HeaderTemplates == {H0, H1, H2}

\* {}, {"m": "u{a}", "n": 7}, {"o": {"m": "{b}"}, "l": ["u{a}", true, null]},
\* {"m": "{a.b}"}
B0 == DictNode(<<>>, <<>>)
B1 == DictNode(<<"m", "n">>, <<StrNode(PA), NumNode(7)>>)
B2 == DictNode(<<"o", "l">>,
               <<DictNode(<<"m">>, <<StrNode(PB)>>),
                 ListNode(<<StrNode(PA), BoolNode(TRUE), NullNode>>)>>)
B3 == DictNode(<<"m">>, <<StrNode(PDot)>>)

BodyTemplates == {B0, B1, B2, B3}

\* WebhookTemplateCreate: the fields of a create or update request
TemplateCreate(n, m, u, h, b) ==
    [name |-> n, method |-> m, url_template |-> u, headers_template |-> h,
     body_template |-> b]

\* the requests sent to the template endpoints
TemplateInputs ==
    {TemplateCreate(n, "POST", PA, H1, B1) : n \in {"A", "B"}}
    \cup {TemplateCreate(n, "GET", PDot, H0, B0) : n \in {"A", "B"}}

\* the templates the substitution is checked on
ResolveTemplates ==
    {TemplateCreate("A", "POST", u, h, b) :
        u \in UrlPatterns, h \in HeaderTemplates, b \in BodyTemplates}
    \cup {TemplateCreate("B", "GET", u, H1, B1) : u \in UrlPatterns}

\* the value sets of the trigger requests: any subset of the keys, a str or
\* an int under "a", a bool under "b", a str under "a.b"
ValueSets ==
    UNION {{[k \in S |-> IF k = Ka THEN va
                         ELSE IF k = Kb THEN BoolVal(TRUE)
                         ELSE StrVal(<<"w">>)] :
              va \in IF Ka \in S THEN {StrVal(<<"v">>), NumVal(42)}
                     ELSE {StrVal(<<"v">>)}} :
           S \in SUBSET Keys}

NoValues == [k \in {} |-> StrVal(<<>>)]
AllValues == [k \in Keys |-> IF k = Ka THEN NumVal(42)
                             ELSE IF k = Kb THEN BoolVal(TRUE)
                             ELSE StrVal(<<"w">>)]

\* the value sets used against the store
StoreValueSets == {NoValues, AllValues}

\* {"a": "v"}
AValues == [k \in {Ka} |-> StrVal(<<"v">>)]

\* the value sets of the triggers whose requests are followed in flight
DispatchValueSets == {AValues, AllValues}

\* the templates those triggers are made on
DispatchTemplates ==
    {TemplateCreate("A", "PUT", PA, H1, B1),
     TemplateCreate("A", "GET", PDot, H0, B0)}

\* AdhocWebhookTrigger: the fields of an ad-hoc trigger request
AdhocWebhookTrigger(m, u, h, b) ==
    [method |-> m, url |-> u, headers |-> h, body |-> b]

\* credential headers in three spellings and a plain header, with the
\* credential s
AdhocHeaders(s) ==
    <<[k |-> "Authorization", v |-> s], [k |-> "X-API-Key", v |-> s],
      [k |-> "api-key", v |-> s], [k |-> "X-A", v |-> <<"p">>]>>

\* the ad-hoc requests: two that differ in the credential only
AdhocInputs ==
    {AdhocWebhookTrigger("POST", PLit, AdhocHeaders(s),
                         DictNode(<<"m">>, <<StrNode(<<"x">>)>>)) :
        s \in {<<"s">>, <<"t">>}}

\* the headers argument of an MCP tool call before it is validated: a
\* JSON object whose values are strings
RawHeaders(h) == [i \in 1..Len(h) |-> [k |-> h[i].k, v |-> StrNode(h[i].v)]]

\* the arguments of the calls of trigger_adhoc_webhook_mcp: the ad-hoc
\* requests, and one whose header value is a JSON object
McpAdhocInputs ==
    {AdhocWebhookTrigger(x.method, x.url, RawHeaders(x.headers), x.body) :
        x \in AdhocInputs}
    \cup {AdhocWebhookTrigger("POST", PLit,
                               <<[k |-> "X-A",
                                  v |-> DictNode(<<"m">>,
                                                 <<StrNode(<<"x">>)>>)]>>,
                               B0)}

\* what the target does with a request that is awaited
TransportOutcomes == {"response", "RequestError", "Exception"}

\* responses by their status code, and all that can happen to a request
Responses == {"response", "response_404", "response_503"}
TargetOutcomes == Responses \cup {"RequestError", "Exception"}

\* every response taken for a 200
status_code_ok(outcome) == 200

\* response.status_code
status_code(outcome) ==
    IF outcome = "response_404" THEN 404
    ELSE IF outcome = "response_503" THEN 503
    ELSE 200

\* wait_for_response and, when it is set, what the target does
DispatchModes ==
    {[wait |-> FALSE, outcome |-> "response"]}
    \cup {[wait |-> TRUE, outcome |-> o] : o \in TransportOutcomes}

(***************************************************************************)
(* The template store and the record of the last handler call              *)
(***************************************************************************)
Ids == 1..MaxIds
NoId == 0

EmptyDb == [i \in {} |-> 0]

NoInput == TemplateCreate("", "", <<>>, <<>>, NullNode)

\* the argument of a CLI command that names a template: the id the service
\* gave to a template (str(uuid.uuid4())), or any other text
IdArg(tid) == [id |-> tid, text |-> ""]
TextArg(text) == [id |-> NoId, text |-> text]
NoArg == TextArg("")

NoDetail == [kind |-> "none", name |-> "", key |-> <<>>, id |-> NoId]
NotFoundDetail == [kind |-> "not_found", name |-> "", key |-> <<>>, id |-> NoId]
ConflictDetail(n) == [kind |-> "conflict", name |-> n, key |-> <<>>, id |-> NoId]
MissingDetail(k) == [kind |-> "missing", name |-> "", key |-> k, id |-> NoId]
InternalDetail == [kind |-> "internal", name |-> "", key |-> <<>>, id |-> NoId]
FormatDetail == [kind |-> "format", name |-> "", key |-> <<>>, id |-> NoId]

\* no dictionary was returned: an exception left the MCP tool
RaisedDetail == [kind |-> "raised", name |-> "", key |-> <<>>, id |-> NoId]

\* the detail of the REST endpoints, which does not name the id
NotFoundIdDetail_plain(tid) == NotFoundDetail

\* f"Template with id {trigger.template_id} not found."
NotFoundIdDetail(tid) ==
    [kind |-> "not_found", name |-> "", key |-> <<>>, id |-> tid]

\* what a handler call was given and what it answered: the HTTP status (or
\* error.status_code of an MCP tool), the detail of an error, the calls it
\* made to send_webhook and the webhook_status of the outcome; for a trigger
\* also wait_for_response, the stored template it read (seen), what the
\* target did with the awaited request (transport), the webhook_request and
\* webhook_response entries of the outcome and the calls of client.request
\* (issued)
Result(op, id, input, values, status, detail, call, ws) ==
    [op |-> op, id |-> id, input |-> input, values |-> values,
     status |-> status, detail |-> detail, call |-> call, ws |-> ws,
     wait |-> FALSE, seen |-> <<>>, transport |-> "", request |-> <<>>,
     response |-> <<>>, issued |-> <<>>, arg |-> NoArg]

\* a trigger that raised before it called send_webhook
Refused(op, tid, values, wait, seen, status, detail) ==
    [Result(op, tid, NoInput, values, status, detail, <<>>, "")
        EXCEPT !.wait = wait, !.seen = seen]

\* a trigger that called send_webhook, and the outcome o it was given
Dispatched(op, tid, values, call, seen, transport, o) ==
    [Result(op, tid, NoInput, values, o.status, o.detail, <<call>>, o.ws)
        EXCEPT !.wait = call.wait, !.seen = seen, !.transport = transport,
               !.request = o.request, !.response = o.response,
               !.issued = o.issued]

\* the store before the call and, when the call before it was a templated
\* trigger of the REST endpoint, what that trigger was given and dispatched
Remember ==
    prev' = IF last.op = "trigger"
            THEN [db |-> db, op |-> last.op, id |-> last.id,
                  values |-> last.values, call |-> last.call]
            ELSE [db |-> db, op |-> "other", id |-> NoId,
                  values |-> NoValues, call |-> <<>>]

\* WebhookTemplate(id=template_id, **template.dict()).dict()
WebhookTemplate(tid, template) ==
    [id |-> tid, name |-> template.name, method |-> template.method,
     url_template |-> template.url_template,
     headers_template |-> template.headers_template,
     body_template |-> template.body_template]

\* the check left out
name_exists_unchecked(d, name) == FALSE

\* any(t['name'] == template.name for t in db.values())
name_exists(d, name) == \E i \in DOMAIN d : d[i].name = name

\* every name taken for free
name_collision_unchecked(d, tid, name) == FALSE

\* == written for != : only the template's own name collides
name_collision_own(d, tid, name) ==
    \E i \in DOMAIN d : d[i].name = name /\ i = tid

\* any(t['name'] == template_update.name and t_id != template_id ...)
name_collision(d, tid, name) ==
    \E i \in DOMAIN d : d[i].name = name /\ i # tid

\* "not db" written for "template_id not in db"
not_in_db_empty(d, tid) == d = EmptyDb

\* template_id not in db
not_in_db(d, tid) == tid \notin DOMAIN d

\* db[template_id].update(updated_template_data)
dict_update(stored, data) ==
    [k \in DOMAIN stored \cup DOMAIN data |->
        IF k \in DOMAIN data THEN data[k] ELSE stored[k]]

\* WebhookTemplate(id=template_id, **db[template_id]) passes id twice when
\* the stored dict has an "id" key: TypeError, answered with status 500
update_response_status(stored) == IF "id" \in DOMAIN stored THEN 500 ELSE 200

\* db[template_id] on a missing key raises KeyError; no handler catches it
\* outside the substitution (status 500, or error 500 of the MCP tool)
\* background requests: how many are scheduled, and what the last one that
\* ran met ("none" before any has run)
NoTasks == [scheduled |-> 0, ran |-> "none"]

KeyErrorResult(op, tid, input, values) ==
    Result(op, tid, input, values, 500, InternalDetail, <<>>, "")

\* del db[template_id]
\* nothing removed
dict_del_keep(d, tid) == d

dict_del(d, tid) == [i \in DOMAIN d \ {tid} |-> d[i]]

\* db[template_id] = new_template.dict()
dict_set(d, tid, t) == [i \in DOMAIN d \cup {tid} |-> IF i = tid THEN t ELSE d[i]]

Init ==
    /\ db = EmptyDb
    /\ core_db = EmptyDb
    /\ used = {}
    /\ last = Result("init", NoId, NoInput, NoValues, 0, NoDetail, <<>>, "")
    /\ prev = [db |-> EmptyDb, op |-> "other", id |-> NoId,
               values |-> NoValues, call |-> <<>>]
    /\ inflight = {}
    /\ tasks = NoTasks

(***************************************************************************)
(* Template management endpoints (main.py).  The handlers are coroutines   *)
(* without an await in their bodies, so each runs as one step.             *)
(***************************************************************************)
create_template(template) ==
    /\ IF name_exists(db, template.name)
       THEN /\ last' = Result("create", NoId, template, NoValues, 409,
                              ConflictDetail(template.name), <<>>, "")
            /\ UNCHANGED <<db, used>>
       ELSE \E tid \in Ids \ used :
            /\ db' = dict_set(db, tid, WebhookTemplate(tid, template))
            /\ used' = used \cup {tid}
            /\ last' = Result("create", tid, template, NoValues, 201,
                              NoDetail, <<>>, "")
    /\ Remember
    /\ UNCHANGED <<core_db, inflight, tasks>>

get_template(tid) ==
    /\ last' = IF not_in_db(db, tid)
               THEN Result("get", tid, NoInput, NoValues, 404,
                           NotFoundDetail, <<>>, "")
               ELSE IF tid \notin DOMAIN db
               THEN KeyErrorResult("get", tid, NoInput, NoValues)
               ELSE Result("get", tid, NoInput, NoValues, 200, NoDetail,
                           <<>>, "")
    /\ Remember
    /\ UNCHANGED <<db, core_db, used, inflight, tasks>>

update_template(tid, template_update) ==
    /\ IF not_in_db(db, tid)
       THEN /\ last' = Result("update", tid, template_update, NoValues, 404,
                              NotFoundDetail, <<>>, "")
            /\ UNCHANGED db
       ELSE IF name_collision(db, tid, template_update.name)
       THEN /\ last' = Result("update", tid, template_update, NoValues, 409,
                              ConflictDetail(template_update.name), <<>>, "")
            /\ UNCHANGED db
       ELSE IF tid \notin DOMAIN db
       THEN /\ last' = KeyErrorResult("update", tid, template_update, NoValues)
            /\ UNCHANGED db
       ELSE /\ db' = [db EXCEPT ![tid] = dict_update(@, template_update)]
            /\ last' = Result("update", tid, template_update, NoValues,
                              update_response_status(db'[tid]),
                              IF update_response_status(db'[tid]) = 500
                              THEN InternalDetail ELSE NoDetail, <<>>, "")
    /\ Remember
    /\ UNCHANGED <<core_db, used, inflight, tasks>>

delete_template(tid) ==
    /\ IF not_in_db(db, tid)
       THEN /\ last' = Result("delete", tid, NoInput, NoValues, 404,
                              NotFoundDetail, <<>>, "")
            /\ UNCHANGED db
       ELSE IF tid \notin DOMAIN db
       THEN /\ last' = KeyErrorResult("delete", tid, NoInput, NoValues)
            /\ UNCHANGED db
       ELSE /\ db' = dict_del(db, tid)
            /\ last' = Result("delete", tid, NoInput, NoValues, 204,
                              NoDetail, <<>>, "")
    /\ Remember
    /\ UNCHANGED <<core_db, used, inflight, tasks>>

(***************************************************************************)
(* The dispatcher.  outcome is what the transport does with an awaited     *)
(* request.                                                                *)
(***************************************************************************)
Call(method, url, headers, body, wait) ==
    [method |-> method, url |-> url, headers |-> headers, body |-> body,
     wait |-> wait]

\* what send_webhook gives its caller: the status and detail of the
\* HTTPException it raises or status 200 with the dictionary it returns
\* (webhook_status, webhook_request, webhook_response; an entry that is
\* absent is the empty sequence); issued are the calls of client.request it
\* made and task tells whether it scheduled one of them with create_task
Outcome(status, detail, ws, request, response, issued, task) ==
    [status |-> status, detail |-> detail, ws |-> ws, request |-> request,
     response |-> response, issued |-> issued, task |-> task]

\* the string "REDACTED"
REDACTED == <<"R", "E", "D", "A", "C", "T", "E", "D">>

\* k.lower() on the header names of the requests
lower(k) ==
    CASE k = "Authorization" -> "authorization"
      [] k = "X-API-Key" -> "x-api-key"
      [] k = "API-KEY" -> "api-key"
      [] k = "X-A" -> "x-a"
      [] k = "X-B" -> "x-b"
      [] OTHER -> k

\* the name compared as it is written, without lower()
safe_headers_case_sensitive(headers) ==
    [i \in DOMAIN headers |->
        [k |-> headers[i].k,
         v |-> IF headers[i].k \in {"authorization", "x-api-key", "api-key"}
               THEN REDACTED ELSE headers[i].v]]

\* {k: ("REDACTED" if k.lower() in [...] else v) for k, v in headers.items()}
safe_headers(headers) ==
    [i \in DOMAIN headers |->
        [k |-> headers[i].k,
         v |-> IF lower(headers[i].k) \in
                     {"authorization", "x-api-key", "api-key"}
               THEN REDACTED ELSE headers[i].v]]

\* request_info, the webhook_request entry of the success record
request_info(method, url, headers) ==
    [keys |-> {"method", "url", "headers"}, method |-> method, url |-> url,
     headers |-> safe_headers(headers)]

\* the webhook_request entry of the accepted record
accepted_request(method, url) ==
    [keys |-> {"method", "url"}, method |-> method, url |-> url,
     headers |-> <<>>]

\* the redacted headers handed to the client
request_args_redacted(method, url, headers, json_body) ==
    [method |-> method, url |-> url, headers |-> safe_headers(headers),
     json |-> json_body]

\* client.request(method, url, headers=headers, json=json_body, timeout=10.0)
request_args(method, url, headers, json_body) ==
    [method |-> method, url |-> url, headers |-> headers, json |-> json_body]

\* every request awaited
fire_and_forget_never(wait) == FALSE

\* if not wait_for_response
fire_and_forget(wait) == ~wait

\* send_webhook of main.py: without waiting the request is scheduled with
\* asyncio.create_task and the accepted record is returned; with waiting the
\* response gives the success record, httpx.RequestError gives 503 and any
\* other exception 500
send_webhook(method, url, headers, json_body, wait, outcome) ==
    LET issued == <<request_args(method, url, headers, json_body)>>
    IN  IF fire_and_forget(wait)
        THEN Outcome(200, NoDetail, "accepted",
                     <<accepted_request(method, url)>>, <<>>, issued, TRUE)
        ELSE IF outcome \in Responses
        THEN Outcome(200, NoDetail, "success",
                     <<request_info(method, url, headers)>>,
                     <<status_code(outcome)>>, issued, FALSE)
        ELSE IF outcome = "RequestError"
        THEN Outcome(503, InternalDetail, "", <<>>, <<>>, issued, FALSE)
        ELSE Outcome(500, InternalDetail, "", <<>>, <<>>, issued, FALSE)

\* send_webhook of core.py: the same, but without waiting it calls
\* _handle_async_task, a name core.py does not define: the NameError is
\* raised before client.request is called, caught by "except Exception" and
\* raised as status 500
core_send_webhook(method, url, headers, json_body, wait, outcome) ==
    LET issued == <<request_args(method, url, headers, json_body)>>
    IN  IF fire_and_forget(wait)
        THEN Outcome(500, InternalDetail, "", <<>>, <<>>, <<>>, FALSE)
        ELSE IF outcome \in Responses
        THEN Outcome(200, NoDetail, "success",
                     <<request_info(method, url, headers)>>,
                     <<status_code(outcome)>>, issued, FALSE)
        ELSE IF outcome = "RequestError"
        THEN Outcome(503, InternalDetail, "", <<>>, <<>>, issued, FALSE)
        ELSE Outcome(500, InternalDetail, "", <<>>, <<>>, issued, FALSE)

\* what the target did as far as the caller of send_webhook observes it:
\* nothing when the request is not awaited
observed(wait, outcome) == IF fire_and_forget(wait) THEN "" ELSE outcome

(***************************************************************************)
(* Templated triggers.  Lookup and substitution run without an await; the  *)
(* handler then returns what send_webhook returns or raises.  These        *)
(* actions follow a trigger from its caller's side, from the request to    *)
(* the answer, as one step.                                                *)
(***************************************************************************)
\* POST /webhooks/trigger/template (main.py): KeyError is answered with 400,
\* any other exception of the substitution is not caught (status 500)
trigger_templated_webhook(tid, values, wait, outcome) ==
    /\ IF not_in_db(db, tid)
       THEN /\ last' = Refused("trigger", tid, values, wait, <<>>, 404,
                               NotFoundDetail)
            /\ UNCHANGED db
       ELSE IF tid \notin DOMAIN db
       THEN /\ last' = KeyErrorResult("trigger", tid, NoInput, values)
            /\ UNCHANGED db
       ELSE LET template == db[tid]
                r == Resolve(template, values)
                o == send_webhook(template.method, r.url, r.headers, r.body,
                                  wait, outcome)
            IN  /\ db' = [db EXCEPT ![tid] = TemplateAfterResolve(@, values)]
                /\ last' =
                     IF r.exc = "KeyError"
                     THEN Refused("trigger", tid, values, wait, <<template>>,
                                  400, MissingDetail(r.key))
                     ELSE IF r.exc # "none"
                     THEN Refused("trigger", tid, values, wait, <<template>>,
                                  500, InternalDetail)
                     ELSE Dispatched("trigger", tid, values,
                                     Call(template.method, r.url, r.headers,
                                          r.body, wait),
                                     <<template>>, observed(wait, outcome), o)
    /\ Remember
    /\ UNCHANGED <<core_db, used, inflight, tasks>>

\* the MCP tool (mcp_wrapper.py): it looks the template up in the db of
\* core.py; every exception becomes an error dictionary
trigger_templated_webhook_mcp(tid, values, wait, outcome) ==
    /\ IF not_in_db(core_db, tid)
       THEN /\ last' = Refused("trigger_mcp", tid, values, wait, <<>>, 404,
                               NotFoundIdDetail(tid))
            /\ UNCHANGED core_db
       ELSE IF tid \notin DOMAIN core_db
       THEN /\ last' = KeyErrorResult("trigger_mcp", tid, NoInput, values)
            /\ UNCHANGED core_db
       ELSE LET template == core_db[tid]
                r == Resolve(template, values)
                o == core_send_webhook(template.method, r.url, r.headers,
                                       r.body, wait, outcome)
            IN  /\ core_db' = [core_db EXCEPT
                                 ![tid] = TemplateAfterResolve(@, values)]
                /\ last' =
                     IF r.exc = "KeyError"
                     THEN Refused("trigger_mcp", tid, values, wait,
                                  <<template>>, 400, MissingDetail(r.key))
                     ELSE IF r.exc # "none"
                     THEN Refused("trigger_mcp", tid, values, wait,
                                  <<template>>, 400, FormatDetail)
                     ELSE Dispatched("trigger_mcp", tid, values,
                                     Call(template.method, r.url, r.headers,
                                          r.body, wait),
                                     <<template>>, observed(wait, outcome), o)
    /\ Remember
    /\ UNCHANGED <<db, used, inflight, tasks>>

(***************************************************************************)
(* Specifications                                                          *)
(***************************************************************************)
\* the service: any sequence of calls to the endpoints and the MCP tool
Next ==
    \/ \E template \in TemplateInputs : create_template(template)
    \/ \E tid \in Ids : get_template(tid)
    \/ \E tid \in Ids, template \in TemplateInputs :
          update_template(tid, template)
    \/ \E tid \in Ids : delete_template(tid)
    \/ \E tid \in Ids, values \in StoreValueSets, mode \in DispatchModes :
          trigger_templated_webhook(tid, values, mode.wait, mode.outcome)
    \/ \E tid \in Ids, values \in StoreValueSets, mode \in DispatchModes :
          trigger_templated_webhook_mcp(tid, values, mode.wait, mode.outcome)

Spec == Init /\ [][Next]_vars

\* the substitution: one stored template, created by POST /templates/ in an
\* empty store, and any sequence of templated triggers on it that wait for
\* the response (the substitution does not read wait_for_response)
InitResolve ==
    /\ \E template \in ResolveTemplates :
          db = dict_set(EmptyDb, 1, WebhookTemplate(1, template))
    /\ core_db = EmptyDb
    /\ used = {1}
    /\ last = Result("init", NoId, NoInput, NoValues, 0, NoDetail, <<>>, "")
    /\ prev = [db |-> EmptyDb, op |-> "other", id |-> NoId,
               values |-> NoValues, call |-> <<>>]
    /\ inflight = {}
    /\ tasks = NoTasks

NextResolve ==
    \/ \E tid \in used, values \in ValueSets :
          trigger_templated_webhook(tid, values, TRUE, "response")
    \/ \E tid \in used, values \in StoreValueSets :
          trigger_templated_webhook_mcp(tid, values, TRUE, "response")

SpecResolve == InitResolve /\ [][NextResolve]_vars

(***************************************************************************)
(* Requests in flight.  A handler that calls send_webhook runs up to the   *)
(* first suspension of the dispatcher: "await client.request" when the     *)
(* response is awaited, the exit of "async with httpx.AsyncClient()" when  *)
(* the request was scheduled or an exception is on its way out.  Other     *)
(* handlers and scheduled requests run while it is suspended.              *)
(***************************************************************************)
\* send_webhook as imported by the handler: mcp_wrapper.py imports it from
\* app.core, the endpoints of main.py use their own
dispatcher(op, call, outcome) ==
    IF op \in {"adhoc_mcp", "trigger_mcp"}
    THEN core_send_webhook(call.method, call.url, call.headers, call.body,
                           call.wait, outcome)
    ELSE send_webhook(call.method, call.url, call.headers, call.body,
                      call.wait, outcome)

\* a caller suspended in "await client.request": the request was handed to
\* the client, nothing has been returned yet
Pending(call) ==
    Outcome(0, NoDetail, "", <<>>, <<>>,
            <<request_args(call.method, call.url, call.headers, call.body)>>,
            FALSE)

\* the client of a background request at the time the request runs: the
\* return statement leaves "async with httpx.AsyncClient() as client", which
\* closes the client, before the event loop can start the scheduled task
client_of_task == "closed"

\* send_webhook is entered and runs to its first suspension
enter_send_webhook(op, tid, values, call, seen) ==
    LET o == dispatcher(op, call, "")
        c == [op |-> op, id |-> tid, values |-> values, call |-> call,
              seen |-> seen,
              pc |-> IF fire_and_forget(call.wait) THEN "closing"
                     ELSE "awaiting",
              o |-> IF fire_and_forget(call.wait) THEN o ELSE Pending(call),
              idle |-> 0]
    IN  /\ Cardinality(inflight) < MaxCalls
        /\ \A d \in inflight : [d EXCEPT !.idle = 0] # c
        /\ inflight' = inflight \cup {c}
        /\ IF fire_and_forget(call.wait) /\ o.task
           THEN /\ tasks.scheduled < MaxTasks
                /\ tasks' = [tasks EXCEPT !.scheduled = @ + 1]
           ELSE UNCHANGED tasks

\* the arguments of the send_webhook call always sent with POST
resolved_call_default_method(template, r, wait) ==
    Call("POST", r.url, r.headers, r.body, wait)

\* send_webhook(method=template['method'], url=url, headers=headers,
\* json_body=body, wait_for_response=trigger.wait_for_response)
resolved_call(template, r, wait) ==
    Call(template.method, r.url, r.headers, r.body, wait)

\* POST /webhooks/trigger/adhoc (main.py)
trigger_adhoc_webhook(trigger, wait) ==
    /\ enter_send_webhook("adhoc", NoId, NoValues,
                          Call(trigger.method, trigger.url, trigger.headers,
                               trigger.body, wait), <<>>)
    /\ UNCHANGED <<db, core_db, used, last, prev>>

\* headers: Dict[str, str] of AdhocWebhookTrigger (core.py) accepts a
\* mapping whose values are strings; a JSON object as a value raises
\* ValidationError
valid_headers(raw) == \A i \in 1..Len(raw) : raw[i].v.t = "str"

\* trigger.headers of the validated model
validated_headers(raw) ==
    [i \in 1..Len(raw) |-> [k |-> raw[i].k, v |-> raw[i].v.s]]

\* the MCP tool trigger_adhoc_webhook_mcp (mcp_wrapper.py): the model
\* AdhocWebhookTrigger is built before the try block, so its
\* ValidationError leaves the tool; the exceptions of send_webhook become
\* error dictionaries
trigger_adhoc_webhook_mcp(args, wait) ==
    /\ IF valid_headers(args.headers)
       THEN /\ enter_send_webhook("adhoc_mcp", NoId, NoValues,
                                  Call(args.method, args.url,
                                       validated_headers(args.headers),
                                       args.body, wait), <<>>)
            /\ UNCHANGED <<last, prev>>
       ELSE /\ last' = Refused("adhoc_mcp", NoId, NoValues, wait, <<>>, 0,
                               RaisedDetail)
            /\ Remember
            /\ UNCHANGED <<inflight, tasks>>
    /\ UNCHANGED <<db, core_db, used>>

\* POST /webhooks/trigger/template (main.py) up to its first suspension:
\* the 404, the 400 and an exception of the substitution are answered at
\* once, otherwise send_webhook is entered with the resolved request
trigger_templated_webhook_called(tid, values, wait) ==
    /\ IF not_in_db(db, tid)
       THEN /\ last' = Refused("trigger", tid, values, wait, <<>>, 404,
                               NotFoundDetail)
            /\ Remember
            /\ UNCHANGED <<db, inflight, tasks>>
       ELSE IF tid \notin DOMAIN db
       THEN /\ last' = KeyErrorResult("trigger", tid, NoInput, values)
            /\ Remember
            /\ UNCHANGED <<db, inflight, tasks>>
       ELSE LET template == db[tid]
                r == Resolve(template, values)
            IN  /\ db' = [db EXCEPT ![tid] = TemplateAfterResolve(@, values)]
                /\ IF r.exc = "KeyError"
                   THEN /\ last' = Refused("trigger", tid, values, wait,
                                           <<template>>, 400,
                                           MissingDetail(r.key))
                        /\ Remember
                        /\ UNCHANGED <<inflight, tasks>>
                   ELSE IF r.exc # "none"
                   THEN /\ last' = Refused("trigger", tid, values, wait,
                                           <<template>>, 500, InternalDetail)
                        /\ Remember
                        /\ UNCHANGED <<inflight, tasks>>
                   ELSE /\ enter_send_webhook("trigger", tid, values,
                                              resolved_call(template, r, wait),
                                              <<template>>)
                        /\ UNCHANGED <<last, prev>>
    /\ UNCHANGED <<core_db, used>>

\* the awaited request ends with a response or an exception and the handler
\* returns the success record or raises; the MCP tool turns the exception
\* into its error dictionary
client_request_completes(c, outcome) ==
    /\ c \in inflight
    /\ c.pc = "awaiting"
    /\ inflight' = inflight \ {c}
    /\ last' = Dispatched(c.op, c.id, c.values, c.call, c.seen,
                          observed(c.call.wait, outcome),
                          dispatcher(c.op, c.call, outcome))
    /\ Remember
    /\ UNCHANGED <<db, core_db, used, tasks>>

\* a handler that did not await the request leaves the dispatcher: the
\* accepted record is returned, or the exception raised in core.py is
\* delivered
send_webhook_returns(c) ==
    /\ c \in inflight
    /\ c.pc = "closing"
    /\ inflight' = inflight \ {c}
    /\ last' = Dispatched(c.op, c.id, c.values, c.call, c.seen, "", c.o)
    /\ Remember
    /\ UNCHANGED <<db, core_db, used, tasks>>

\* the event loop starts a scheduled request: client.request runs on the
\* client of its dispatch; a closed client raises and sends nothing, and
\* nothing retrieves the exception of the task
background_request_runs ==
    /\ tasks.scheduled > 0
    /\ tasks' = [scheduled |-> tasks.scheduled - 1,
                 ran |-> IF client_of_task = "closed" THEN "client_closed"
                         ELSE "sent"]
    /\ UNCHANGED <<db, core_db, used, last, prev, inflight>>

\* timeout=10.0 of client.request: httpx raises a TimeoutException, which is
\* a RequestError, when the connection has been inactive for that long; the
\* time is counted from the last byte that arrived, and not from the start of
\* the request
timeout == 10

\* time passes for an awaited request without a byte from the target (idle
\* counts it)
time_passes(c) ==
    /\ c \in inflight
    /\ c.pc = "awaiting"
    /\ c.idle < timeout
    /\ inflight' = (inflight \ {c}) \cup {[c EXCEPT !.idle = @ + 1]}
    /\ UNCHANGED <<db, core_db, used, last, prev, tasks>>

\* the target sends a part of its response: client.request, which returns
\* when the whole body was read, goes on reading
target_sends_bytes(c) ==
    /\ c \in inflight
    /\ c.pc = "awaiting"
    /\ 0 < c.idle /\ c.idle < timeout
    /\ inflight' = (inflight \ {c}) \cup {[c EXCEPT !.idle = 0]}
    /\ UNCHANGED <<db, core_db, used, last, prev, tasks>>

\* the connection was inactive for the timeout: client.request raises
\* httpx.TimeoutException, handled by "except httpx.RequestError"
request_times_out(c) ==
    /\ c \in inflight
    /\ c.idle = timeout
    /\ client_request_completes(c, "RequestError")

\* one stored template, created by POST /templates/ in an empty store; any
\* sequence of triggers, with updates and deletions of the template while
\* requests are in flight
InitDispatch ==
    /\ \E template \in DispatchTemplates :
          db = dict_set(EmptyDb, 1, WebhookTemplate(1, template))
    /\ core_db = EmptyDb
    /\ used = {1}
    /\ last = Result("init", NoId, NoInput, NoValues, 0, NoDetail, <<>>, "")
    /\ prev = [db |-> EmptyDb, op |-> "other", id |-> NoId,
               values |-> NoValues, call |-> <<>>]
    /\ inflight = {}
    /\ tasks = NoTasks

NextDispatch ==
    \/ \E trigger \in AdhocInputs, wait \in BOOLEAN :
          trigger_adhoc_webhook(trigger, wait)
    \/ \E args \in McpAdhocInputs, wait \in BOOLEAN :
          trigger_adhoc_webhook_mcp(args, wait)
    \/ \E tid \in used, values \in DispatchValueSets, wait \in BOOLEAN :
          trigger_templated_webhook_called(tid, values, wait)
    \/ \E tid \in used, values \in DispatchValueSets, wait \in BOOLEAN :
          trigger_templated_webhook_mcp(tid, values, wait, "response")
    \/ \E tid \in used, template \in DispatchTemplates :
          update_template(tid, template)
    \/ \E tid \in used : delete_template(tid)
    \/ \E c \in inflight, outcome \in TargetOutcomes :
          client_request_completes(c, outcome)
    \/ \E c \in inflight : send_webhook_returns(c)
    \/ background_request_runs

SpecDispatch == InitDispatch /\ [][NextDispatch]_vars

\* the ad-hoc triggers with their requests timed: a target answers, fails,
\* sends a part of its response or stays silent as it likes; time goes on
\* for every awaited request and the event loop runs the timeout of a
\* request that is due
NextTimeout ==
    \/ \E trigger \in AdhocInputs, wait \in BOOLEAN :
          trigger_adhoc_webhook(trigger, wait)
    \/ \E args \in McpAdhocInputs, wait \in BOOLEAN :
          trigger_adhoc_webhook_mcp(args, wait)
    \/ \E c \in inflight, outcome \in TargetOutcomes :
          client_request_completes(c, outcome)
    \/ \E c \in inflight : send_webhook_returns(c)
    \/ background_request_runs
    \/ \E c \in inflight : time_passes(c)
    \/ \E c \in inflight : target_sends_bytes(c)
    \/ \E c \in inflight : request_times_out(c)

SpecTimeout ==
    /\ InitDispatch
    /\ [][NextTimeout]_vars
    /\ WF_vars(\E c \in inflight : time_passes(c))
    /\ WF_vars(\E c \in inflight : request_times_out(c))

(***************************************************************************)
(* The command line client (cli.py).  Its commands call the endpoints over *)
(* HTTP, one request at a time.                                            *)
(***************************************************************************)
\* a template name of 36 characters
Name36 == "nightly-build-notification-hook-0001"

CliNames == {"A", "B", Name36}

\* the templates created while the client is used
CliTemplates == {TemplateCreate(n, "POST", PLit, H0, B0) : n \in CliNames}

\* id_or_name of _get_template_by_id_or_name
CliArgs == {IdArg(tid) : tid \in Ids} \cup {TextArg(n) : n \in CliNames}

\* len(id_or_name): an id is the text of a UUID, 36 characters
len(arg) == IF arg.id # NoId THEN 36 ELSE Len(arg.text)

\* the status of GET /templates/{id_or_name} (get_template of main.py): a
\* text that is no id of the store is answered 404
api_get_template_status(d, arg) ==
    IF arg.id # NoId /\ ~not_in_db(d, arg.id) THEN 200 ELSE 404

\* ApiClient.find_template_by_name: the first template of GET /templates/
\* with that name, or None; the names of the store are unique here, and no
\* template is named by the text of an id
find_template_by_name(d, arg) ==
    LET hits == {i \in DOMAIN d : arg.id = NoId /\ d[i].name = arg.text}
    IN  IF hits = {} THEN <<>> ELSE <<d[CHOOSE i \in hits : TRUE]>>

\* what the helper did: the template it returned, or the exit code and the
\* message of sys.exit
CliResult(arg, template, code, message) ==
    [Result("cli_lookup", arg.id, NoInput, NoValues, code,
            [kind |-> message, name |-> arg.text, key |-> <<>>, id |-> arg.id],
            <<>>, "")
        EXCEPT !.seen = template, !.arg = arg]

\* _get_template_by_id_or_name: ApiClient._request catches HTTPStatusError
\* itself, prints "API Error" and calls sys.exit(1), so the 404 of
\* get_template never reaches the except clause of the helper and the search
\* by name is not tried
get_template_by_id_or_name(arg) ==
    /\ last' =
         IF len(arg) = 36
         THEN IF api_get_template_status(db, arg) = 200
              THEN CliResult(arg, <<db[arg.id]>>, 0, "none")
              ELSE CliResult(arg, <<>>, 1, "api_error")
         ELSE LET template == find_template_by_name(db, arg)
              IN  IF template = <<>>
                  THEN CliResult(arg, <<>>, 1, "cli_not_found")
                  ELSE CliResult(arg, template, 0, "none")
    /\ Remember
    /\ UNCHANGED <<db, core_db, used, inflight, tasks>>

\* the client used on a running service: templates are created and
\* deleted, and looked up by id or name
NextCli ==
    \/ \E template \in CliTemplates : create_template(template)
    \/ \E tid \in Ids : delete_template(tid)
    \/ \E arg \in CliArgs : get_template_by_id_or_name(arg)

SpecCli == Init /\ [][NextCli]_vars

(***************************************************************************)
(* The template store (checked under Spec)                                 *)
(***************************************************************************)
\* the last call was given an id that was in the store when it was made
KnownId == last.id \in DOMAIN prev.db

\* the name the last call was given is held by a template other than tid
HeldByOther(tid) ==
    \E j \in DOMAIN prev.db : j # tid /\ prev.db[j].name = last.input.name

\* C1: after any sequence of create, update and delete calls, no two stored
\* templates have the same name.
C1_UniqueNames ==
    \A i, j \in DOMAIN db : db[i].name = db[j].name => i = j

\* two templates are stored and the last call, an update to the name of the
\* other one, was refused
C1_Witness ==
    /\ Cardinality(DOMAIN db) = 2
    /\ last.op = "update"
    /\ last.status = 409

\* C2: create_template with the name of a stored template fails with 409
\* naming that name, and the store is left as it was: no id is added.
C2_CreateConflict ==
    (last.op = "create" /\ HeldByOther(NoId))
    => /\ last.status = 409
       /\ last.detail = ConflictDetail(last.input.name)
       /\ last.id = NoId
       /\ db = prev.db

C2_Witness ==
    /\ last.op = "create"
    /\ HeldByOther(NoId)
    /\ last.status = 409
    /\ db # EmptyDb

\* C3: update_template of a stored id with a name held by another stored
\* template fails with 409, and the store, the targeted template included,
\* is unchanged.
C3_UpdateConflict ==
    (last.op = "update" /\ KnownId /\ HeldByOther(last.id))
    => /\ last.status = 409
       /\ last.detail = ConflictDetail(last.input.name)
       /\ db = prev.db

C3_Witness ==
    /\ last.op = "update"
    /\ KnownId
    /\ HeldByOther(last.id)
    /\ last.status = 409
    /\ db[last.id].name # last.input.name

\* C4: an update_template of a stored id with a name no other template holds
\* succeeds, replaces name, method, url_template, headers_template and
\* body_template by the supplied ones and keeps the id: same key, same id
\* field, same set of stored ids.
C4_UpdateReplaces ==
    (last.op = "update" /\ KnownId /\ ~HeldByOther(last.id))
    => /\ last.status = 200
       /\ DOMAIN db = DOMAIN prev.db
       /\ db = [prev.db EXCEPT ![last.id] = WebhookTemplate(last.id, last.input)]

\* C5: get, update, delete and templated trigger with an id that is not in
\* the store fail with 404, leave the store unchanged and hand nothing to the
\* dispatcher.
C5_NotFound ==
    (last.op \in {"get", "update", "delete", "trigger"} /\ ~KnownId)
    => /\ last.status = 404
       /\ last.detail = NotFoundDetail
       /\ db = prev.db
       /\ last.call = <<>>

\* a trigger on an id that is not stored, while another template is
C5_Witness ==
    /\ last.op = "trigger"
    /\ ~KnownId
    /\ last.status = 404
    /\ db # EmptyDb

(***************************************************************************)
(* The substitution (checked under SpecResolve).  The claims speak of the  *)
(* placeholders of a pattern: the tokens {name}, name matched exactly      *)
(* against the keys of the value set.  They are stated here for patterns   *)
(* in which every brace belongs to such a token.                           *)
(***************************************************************************)
RECURSIVE TokensOnly(_, _)
\* from index i on, p is literal text and {name} tokens with a non-empty name
TokensOnly(p, i) ==
    IF i > Len(p) THEN TRUE
    ELSE IF p[i] = "}" THEN FALSE
    ELSE IF p[i] = "{"
    THEN LET j == NextBrace(p, i + 1)
         IN  /\ j <= Len(p)
             /\ p[j] = "}"
             /\ j > i + 1
             /\ TokensOnly(p, j + 1)
    ELSE TokensOnly(p, i + 1)

\* the names of the {name} tokens of p
Placeholders(p) ==
    {SubSeq(p, i + 1, j - 1) : <<i, j>> \in
        {ij \in (1..Len(p)) \X (1..Len(p)) :
            /\ p[ij[1]] = "{"
            /\ p[ij[2]] = "}"
            /\ ij[2] > ij[1] + 1
            /\ NextBrace(p, ij[1] + 1) = ij[2]}}

RECURSIVE Substituted(_, _, _)
\* p from index i on, every {name} replaced by the text of values[name]
Substituted(p, i, values) ==
    IF i > Len(p) THEN <<>>
    ELSE IF p[i] = "{"
    THEN LET j == NextBrace(p, i + 1)
         IN  Text(values[SubSeq(p, i + 1, j - 1)]) \o Substituted(p, j + 1, values)
    ELSE <<p[i]>> \o Substituted(p, i + 1, values)

RECURSIVE StringLeaves(_)
\* the string leaves of a body pattern tree
StringLeaves(item) ==
    IF item.t = "str" THEN {item.s}
    ELSE UNION {StringLeaves(item.kids[i]) : i \in 1..Len(item.kids)}

\* the patterns of a template: URL, header values, string leaves of the body
PatternsOf(T) ==
    {T.url_template}
    \cup {T.headers_template[i].v : i \in 1..Len(T.headers_template)}
    \cup StringLeaves(T.body_template)

Referenced(T) == UNION {Placeholders(p) : p \in PatternsOf(T)}

TokensOnlyTemplate(T) == \A p \in PatternsOf(T) : TokensOnly(p, 1)

SubstitutedHeaders(hs, values) ==
    [i \in 1..Len(hs) |-> [k |-> hs[i].k, v |-> Substituted(hs[i].v, 1, values)]]

RECURSIVE SubstitutedBody(_, _)
\* string leaves rendered, keys, order, length and other leaves unchanged
SubstitutedBody(item, values) ==
    IF item.t = "str" THEN StrNode(Substituted(item.s, 1, values))
    ELSE IF item.t \in {"dict", "list"}
    THEN [item EXCEPT !.kids = [i \in 1..Len(item.kids) |->
                                  SubstitutedBody(item.kids[i], values)]]
    ELSE item

\* the last call was a templated trigger on a stored template T made of
\* literal text and {name} tokens
TriggeredTemplate == prev.db[last.id]

TriggerOnStored ==
    /\ last.op = "trigger"
    /\ KnownId
    /\ TokensOnlyTemplate(TriggeredTemplate)

Complete == Referenced(TriggeredTemplate) \subseteq DOMAIN last.values

\* C6: for every stored template T and value set V that supplies every
\* placeholder referenced in T, resolving terminates without error and the
\* body handed to the dispatcher is a mapping.
C6_CompleteResolves ==
    (TriggerOnStored /\ Complete)
    => /\ Len(last.call) = 1
       /\ last.call[1].body.t = "dict"

\* C7: for every T and V that lacks a placeholder referenced in T, the
\* trigger fails with status 400 naming exactly one placeholder, one that T
\* references and V lacks.
C7_MissingNamed ==
    (TriggerOnStored /\ ~Complete)
    => /\ last.status = 400
       /\ last.detail.kind = "missing"
       /\ last.detail.key \in Referenced(TriggeredTemplate) \ DOMAIN last.values
       /\ last.call = <<>>

\* C8: for every T and complete V, the request handed to the dispatcher has
\* T's method, T's URL with each {name} replaced by the text of V[name], T's
\* header names with each value rendered the same way, and T's body with
\* every string leaf rendered and everything else unchanged.
C8_RenderedRequest ==
    (TriggerOnStored /\ Complete)
    => /\ Len(last.call) = 1
       /\ last.call[1].method = TriggeredTemplate.method
       /\ last.call[1].url =
            Substituted(TriggeredTemplate.url_template, 1, last.values)
       /\ last.call[1].headers =
            SubstitutedHeaders(TriggeredTemplate.headers_template, last.values)
       /\ last.call[1].body =
            SubstitutedBody(TriggeredTemplate.body_template, last.values)

\* C9: a placeholder whose name contains a dot, {a.b}, is replaced by the
\* value stored under the key "a.b", and the trigger succeeds when that key
\* (with every other referenced one) is supplied.
C9_DottedName ==
    (TriggerOnStored /\ Complete /\ Kab \in Referenced(TriggeredTemplate))
    => /\ last.status \notin {400, 500}
       /\ Len(last.call) = 1
       /\ \A p \in PatternsOf(TriggeredTemplate) :
             format(p, last.values) = FmtOk(Substituted(p, 1, last.values))

\* C10: resolving the same (template, values) pair twice in a row, with no
\* store operation in between, hands the same URL, headers and body to the
\* dispatcher both times, and resolving does not modify the stored template.
C10_ResolveTwice ==
    /\ last.op = "trigger" => db = prev.db
    /\ (last.op = "trigger" /\ prev.op = "trigger" /\ last.id = prev.id
          /\ last.values = prev.values)
       => /\ Len(last.call) = Len(prev.call)
          /\ Len(last.call) = 1
             => /\ last.call[1].url = prev.call[1].url
                /\ last.call[1].headers = prev.call[1].headers
                /\ last.call[1].body = prev.call[1].body

\* the same trigger made twice, both resolved, with a value substituted
C10_Witness ==
    /\ last.op = "trigger"
    /\ prev.op = "trigger"
    /\ last.id = prev.id
    /\ last.values = prev.values
    /\ last.values # NoValues
    /\ Len(last.call) = 1
    /\ Len(prev.call) = 1
    /\ last.call[1].url # db[last.id].url_template

(***************************************************************************)
(* The dispatcher (checked under SpecDispatch)                             *)
(***************************************************************************)
\* header names that carry a credential, in the spellings the requests use
CredentialHeader(k) ==
    k \in {"Authorization", "authorization", "X-API-Key", "x-api-key",
           "API-KEY", "api-key"}

\* hs and gs are the same headers but for the values of credential headers
SameButCredentials(hs, gs) ==
    /\ Len(hs) = Len(gs)
    /\ \A i \in 1..Len(hs) :
          /\ hs[i].k = gs[i].k
          /\ CredentialHeader(hs[i].k) \/ hs[i].v = gs[i].v

\* C11: in every success outcome, webhook_request.headers has the value
\* "REDACTED" under every name that is authorization, x-api-key or api-key
\* in any letter case and the original value under every other name; a
\* dispatch that differs only in the values of such headers reports the same
\* webhook_request.
C11_Redaction ==
    last.ws = "success"
    => /\ Len(last.request) = 1
       /\ "headers" \in last.request[1].keys
       /\ last.request[1].method = last.call[1].method
       /\ last.request[1].url = last.call[1].url
       /\ Len(last.request[1].headers) = Len(last.call[1].headers)
       /\ \A i \in 1..Len(last.call[1].headers) :
             /\ last.request[1].headers[i].k = last.call[1].headers[i].k
             /\ last.request[1].headers[i].v =
                  IF CredentialHeader(last.call[1].headers[i].k)
                  THEN REDACTED ELSE last.call[1].headers[i].v
       /\ \A x \in AdhocInputs :
             (/\ x.method = last.call[1].method
              /\ x.url = last.call[1].url
              /\ SameButCredentials(x.headers, last.call[1].headers))
             => dispatcher(last.op,
                           Call(x.method, x.url, x.headers, x.body, TRUE),
                           last.transport).request = last.request

\* a success outcome of a request with credential headers and a plain
\* header, for which another request differs in the credential only
C11_Witness ==
    /\ last.ws = "success"
    /\ \E i \in 1..Len(last.call[1].headers) :
          /\ CredentialHeader(last.call[1].headers[i].k)
          /\ lower(last.call[1].headers[i].k) # last.call[1].headers[i].k
          /\ last.call[1].headers[i].v # REDACTED
    /\ \E i \in 1..Len(last.call[1].headers) :
          ~CredentialHeader(last.call[1].headers[i].k)
    /\ \E x \in AdhocInputs :
          /\ x.headers # last.call[1].headers
          /\ SameButCredentials(x.headers, last.call[1].headers)

\* C12: the headers handed to the client are the headers the dispatcher was
\* called with, credential values included, for every request it issues.
C12_TransportHeaders ==
    /\ \A c \in inflight : \A i \in 1..Len(c.o.issued) :
          c.o.issued[i].headers = c.call.headers
    /\ \A i \in 1..Len(last.issued) :
          last.issued[i].headers = last.call[1].headers

\* a request with a credential was handed to the client with the credential
\* and reported with "REDACTED"
C12_Witness ==
    /\ last.ws = "success"
    /\ Len(last.issued) = 1
    /\ \E i \in 1..Len(last.issued[1].headers) :
          /\ CredentialHeader(last.issued[1].headers[i].k)
          /\ last.issued[1].headers[i].v = <<"s">>
          /\ last.request[1].headers[i].v = REDACTED
    /\ \E c \in inflight : c.pc = "closing" /\ Len(c.o.issued) = 1

\* C13: every call of the dispatcher with wait = false returns the accepted
\* outcome, with only method and url in webhook_request and no
\* webhook_response; it never returns success and never raises.
C13_AlwaysAccepted ==
    (last.call # <<>> /\ ~last.call[1].wait)
    => /\ last.status = 200
       /\ last.ws = "accepted"
       /\ Len(last.request) = 1
       /\ last.request[1].keys = {"method", "url"}
       /\ last.response = <<>>

\* C14: an MCP tool called with wait_for_response = false on arguments that
\* reach the dispatcher returns a result without "error", with
\* webhook_status "accepted" and the request URL.
C14_McpAccepted ==
    (/\ last.op \in {"adhoc_mcp", "trigger_mcp"}
     /\ last.call # <<>>
     /\ ~last.call[1].wait)
    => /\ last.detail = NoDetail
       /\ last.ws = "accepted"
       /\ Len(last.request) = 1
       /\ last.request[1].url = last.call[1].url

\* C15: a target that cannot be reached makes a dispatch with wait = true
\* fail with status 503 and no outcome; a dispatch with wait = false returns
\* the accepted outcome and never fails with 503.
C15_Unreachable ==
    last.call # <<>>
    => /\ (last.call[1].wait /\ last.transport = "RequestError")
          => /\ last.status = 503
             /\ last.ws = ""
             /\ last.request = <<>>
             /\ last.response = <<>>
       /\ ~last.call[1].wait
          => /\ last.ws = "accepted"
             /\ last.status # 503

\* C16: with wait = false no caller is suspended on the request: the only
\* callers that await a response asked for it, and a caller that did not can
\* return whatever the scheduled request has done.
C16_NoWaiting ==
    \A c \in inflight :
       /\ c.pc = "awaiting" => c.call.wait
       /\ ~c.call.wait => ENABLED send_webhook_returns(c)

\* a caller with wait = false has not returned yet while the request it
\* scheduled has not run, or has run and failed
C16_Witness ==
    \E c \in inflight :
       /\ ~c.call.wait
       /\ c.o.task
       /\ tasks.ran = "client_closed"
       /\ tasks.scheduled = 0

\* C17: every call of the dispatcher that has returned made exactly one
\* request attempt.
C17_OneAttempt ==
    last.call # <<>> => Len(last.issued) = 1

\* C18: a scheduled background request finds a usable client when it runs.
C18_ClientUsable ==
    tasks.ran # "client_closed"

\* C19: a templated trigger with wait = true answers an unknown id with 404,
\* a missing placeholder with 400, an unreachable target with 503 and any
\* other failure of the request with 500, and in none of these cases with a
\* success or accepted outcome.
C19_FailuresReported ==
    (last.op = "trigger" /\ last.wait)
    => LET unknown == last.seen = <<>>
           missing == /\ last.seen # <<>>
                      /\ TokensOnlyTemplate(last.seen[1])
                      /\ ~(Referenced(last.seen[1]) \subseteq DOMAIN last.values)
           unreachable == last.transport = "RequestError"
           failed == last.transport = "Exception"
       IN  /\ unknown => last.status = 404
           /\ missing => last.status = 400
           /\ unreachable => last.status = 503
           /\ failed => last.status = 500
           /\ (unknown \/ missing \/ unreachable \/ failed)
              => last.ws \notin {"success", "accepted"}

\* the request call was resolved from the stored template T and the values V
FromOneVersion(call, T, V) ==
    /\ call.method = T.method
    /\ IF TokensOnlyTemplate(T) /\ Referenced(T) \subseteq DOMAIN V
       THEN /\ call.url = Substituted(T.url_template, 1, V)
            /\ call.headers = SubstitutedHeaders(T.headers_template, V)
            /\ call.body = SubstitutedBody(T.body_template, V)
       ELSE /\ call.url = Resolve(T, V).url
            /\ call.headers = Resolve(T, V).headers
            /\ call.body = Resolve(T, V).body

\* C20: whatever update_template and delete_template do to the template
\* while a trigger on it is in flight, the method, URL, headers and body of
\* the dispatched request come from the one stored version the trigger read,
\* and so do the method and URL the outcome reports.
C20_OneVersion ==
    /\ \A c \in inflight :
          c.op = "trigger"
          => /\ Len(c.seen) = 1
             /\ FromOneVersion(c.call, c.seen[1], c.values)
             /\ \A i \in 1..Len(c.o.issued) :
                   c.o.issued[i] =
                     request_args(c.call.method, c.call.url, c.call.headers,
                                  c.call.body)
    /\ (last.op = "trigger" /\ last.call # <<>>)
       => /\ Len(last.seen) = 1
          /\ FromOneVersion(last.call[1], last.seen[1], last.values)
          /\ \A i \in 1..Len(last.request) :
                /\ last.request[i].method = last.seen[1].method
                /\ last.request[i].url = last.call[1].url

\* a trigger is awaiting its response and the template it read has since
\* been replaced by one with another method and URL pattern
C20_Witness ==
    \E c \in inflight :
       /\ c.op = "trigger"
       /\ c.pc = "awaiting"
       /\ c.id \in DOMAIN db
       /\ db[c.id].method # c.call.method
       /\ db[c.id].url_template # c.seen[1].url_template

(***************************************************************************)
(* The MCP tools and the two stores (checked under Spec)                   *)
(***************************************************************************)
\* C21: a template created through POST /templates/ and not deleted since is
\* found by trigger_templated_webhook_mcp: the tool does not answer 404 and
\* works on the stored template.
C21_VisibleToMcp ==
    (last.op = "trigger_mcp" /\ last.id \in DOMAIN db)
    => /\ last.status # 404
       /\ last.seen = <<db[last.id]>>

C23_McpNeverRaises ==
    last.op \in {"adhoc_mcp", "trigger_mcp"}
    => /\ last.detail.kind # "raised"
       /\ \/ last.status = 200 /\ last.ws \in {"success", "accepted"}
          \/ last.status \in {400, 404, 500, 503} /\ last.ws = ""

\* C24: the MCP tool mirrors the REST endpoint: called with the
\* (template_id, values, wait_for_response) that the endpoint was just called
\* with, on a store that has not changed since, it hands the dispatcher the
\* (method, url, headers, body, wait) that the endpoint handed it.
C24_McpMirrorsRest ==
    (/\ last.op = "trigger_mcp"
     /\ prev.op = "trigger"
     /\ last.id = prev.id
     /\ last.values = prev.values
     /\ prev.call # <<>>
     /\ last.wait = prev.call[1].wait
     /\ db = prev.db)
    => last.call = prev.call

(***************************************************************************)
(* The awaited request (checked under SpecDispatch)                        *)
(***************************************************************************)
\* the status code the target answered with
TargetStatus ==
    IF last.transport = "response_404" THEN 404
    ELSE IF last.transport = "response_503" THEN 503
    ELSE 200

\* C25: a dispatch with wait = true whose target answers, with whatever
\* status code, returns the success outcome with that status code in
\* webhook_response, and not an error.
C25_AnyStatusIsSuccess ==
    (last.call # <<>> /\ last.call[1].wait /\ last.transport \in Responses)
    => /\ last.status = 200
       /\ last.ws = "success"
       /\ last.detail = NoDetail
       /\ last.response = <<TargetStatus>>

\* the target answered 503 to a request of the MCP tool, and 404 to one of
\* the endpoint
C25_Witness ==
    /\ last.call # <<>>
    /\ last.call[1].wait
    /\ \/ /\ last.op = "adhoc_mcp"
          /\ last.transport = "response_503"
          /\ last.response = <<503>>
       \/ /\ last.op = "trigger"
          /\ last.transport = "response_404"
          /\ last.response = <<404>>
    /\ last.ws = "success"

(***************************************************************************)
(* The timeout of the awaited request (checked under SpecTimeout)          *)
(***************************************************************************)
\* a caller of the ad-hoc trigger op is suspended on the awaited request x
Suspended(op, x) ==
    \E c \in inflight :
       /\ c.op = op
       /\ c.pc = "awaiting"
       /\ c.call = Call(x.method, x.url, x.headers, x.body, TRUE)

\* C26: every dispatch with wait = true eventually returns to its caller; no
\* caller stays suspended forever, whatever the target does.
C26_EventuallyReturns ==
    \A op \in {"adhoc", "adhoc_mcp"}, x \in AdhocInputs :
       Suspended(op, x) ~> ~Suspended(op, x)

(***************************************************************************)
(* The lookup of the command line client (checked under SpecCli)           *)
(***************************************************************************)
\* the stored templates named by the text the helper was given
NamedBy(arg) == {i \in DOMAIN db : arg.id = NoId /\ db[i].name = arg.text}

\* C27: _get_template_by_id_or_name(s) returns the template with id s when
\* there is one, otherwise the template named s when there is one, whatever
\* the length of s, and exits with "not found" when there is neither.
C27_IdThenName ==
    last.op = "cli_lookup"
    => LET s == last.arg
           byId == s.id \in DOMAIN db
       IN  /\ byId => last.seen = <<db[s.id]>>
           /\ (~byId /\ NamedBy(s) # {})
              => \E i \in NamedBy(s) : last.seen = <<db[i]>>
           /\ (~byId /\ NamedBy(s) = {})
              => last.seen = <<>> /\ last.status = 1
           /\ last.detail.kind = "cli_not_found"
              => ~byId /\ NamedBy(s) = {}

(***************************************************************************)
(* Triggers and the store (checked under SpecDispatch)                     *)
(***************************************************************************)
\* the templated trigger that has just been answered failed in the lookup
\* (404) or in the substitution (400 for a missing placeholder, 500 with
\* nothing heard from a target for any other failure)
FailedBeforeDispatch ==
    /\ last' # last
    /\ last'.op = "trigger"
    /\ \/ last'.status \in {400, 404}
       \/ last'.status = 500 /\ last'.transport = ""

\* C28: a templated trigger that fails in the lookup or in the substitution
\* issues no request and schedules no background task, with and without
\* waiting: the step that answers it calls no dispatcher and leaves the
\* suspended callers and the scheduled tasks as they were, and every
\* templated request in flight was given all the placeholders of its
\* template.
C28_NoRequestOnFailure ==
    /\ [](\A c \in inflight :
             c.op = "trigger"
             => /\ c.seen # <<>>
                /\ Referenced(c.seen[1]) \subseteq DOMAIN c.values)
    /\ [][FailedBeforeDispatch
          => /\ last'.call = <<>>
             /\ last'.issued = <<>>
             /\ inflight' = inflight
             /\ tasks' = tasks]_vars

\* a trigger without waiting failed on a missing placeholder and nothing is
\* scheduled or in flight
C28_Witness ==
    /\ last.op = "trigger"
    /\ ~last.wait
    /\ last.status = 400
    /\ last.seen # <<>>
    /\ ~(Referenced(last.seen[1]) \subseteq DOMAIN last.values)
    /\ last.issued = <<>>
    /\ inflight = {}
    /\ tasks = NoTasks

\* a step of a trigger: a caller enters or leaves the dispatcher, a
\* scheduled request runs, or a trigger is answered
TriggerStep ==
    \/ inflight' # inflight
    \/ tasks' # tasks
    \/ /\ last' # last
       /\ last'.op \in {"adhoc", "adhoc_mcp", "trigger", "trigger_mcp"}

\* C29: no trigger, ad-hoc or templated, of the endpoints or of the MCP
\* tools, waiting or not, answered with success, accepted or an error,
\* changes the stored ids or a field of a stored template.
C29_TriggersKeepStore ==
    [][TriggerStep => db' = db /\ core_db' = core_db]_vars

\* a templated trigger was answered with success for a URL it substituted,
\* and the stored template is the one it read
C29_Witness ==
    /\ last.op = "trigger"
    /\ last.ws = "success"
    /\ last.call[1].url # last.seen[1].url_template
    /\ last.id \in DOMAIN db
    /\ db[last.id] = last.seen[1]

(***************************************************************************)
(* Deleted templates (checked under Spec)                                  *)
(***************************************************************************)
\* the ids of the templates that were deleted: given out and not stored
DeletedIds(store) == used \ DOMAIN store

\* C30: a successful delete removes the template and nothing else and frees
\* its name; from then on get, update, delete and the templated trigger on
\* its id are answered 404, no later template is given that id, and a create
\* with a name that no stored template holds, the deleted one's included,
\* succeeds.
C30_DeletedForGood ==
    /\ [](/\ (last.op = "delete" /\ last.status = 204)
             => /\ last.id \notin DOMAIN db
                /\ DOMAIN db = DOMAIN prev.db \ {last.id}
                /\ \A j \in DOMAIN db : db[j] = prev.db[j]
                /\ ~name_exists(db, prev.db[last.id].name)
          /\ (/\ last.op \in {"get", "update", "delete", "trigger"}
              /\ last.id \in DeletedIds(prev.db))
             => last.status = 404 /\ db = prev.db
          /\ (last.op = "create" /\ ~name_exists(prev.db, last.input.name))
             => /\ last.status = 201
                /\ last.id \notin DOMAIN prev.db
                /\ DOMAIN db = DOMAIN prev.db \cup {last.id}
                /\ db[last.id].name = last.input.name)
    /\ [][/\ (DOMAIN db' \ DOMAIN db) \cap used = {}
          /\ used \subseteq used']_vars

\* the trigger on the id of a deleted template was answered 404 while
\* another template, created after the deletion, is stored
C30_Witness ==
    /\ last.op = "trigger"
    /\ last.id \in DeletedIds(db)
    /\ last.status = 404
    /\ db # EmptyDb
    /\ db = prev.db

====
